---- MODULE Spec2Model ----
(***************************************************************************)
(* A model of the CHIP-8 virtual machine of emulator/chip8.go and          *)
(* emulator/opcodes.go, and of the host events of emulator/emulator.go     *)
(* that reach it (key down, key up, reset, timer tick, step).              *)
(*                                                                         *)
(* The machine is the record chip8 (the Go struct Chip8); rom is the       *)
(* byte sequence the emulator was started with (Emulator.rom); status      *)
(* tells whether the process is still alive: log.Fatalf and a Go run-time  *)
(* panic (index or slice bound out of range) both end it.                  *)
(*                                                                         *)
(* Next drives the machine through its interface in any order (step, tick, *)
(* key input, reset); HostNext is the loop of Emulator.Run with            *)
(* pollEvents, where host holds the Emulator fields and Run's cycle.       *)
(***************************************************************************)
EXTENDS Integers, Sequences, FiniteSets, TLC

VARIABLES rom, chip8, status, host, stepCalls

vars == <<rom, chip8, status, host, stepCalls>>

\* the host's own state: host is the Emulator fields running, focus and
\* stepMode, the local variable cycle of Run, and the place Run is at ("loop":
\* about to run the loop body, "poll": inside pollEvents); stepCalls observes
\* the calls the host makes (see LoopBody)
hostVars == <<host, stepCalls>>

---------------------------------------------------------------------------
\* Program constants (emulator/chip8.go).

Chip8DisplayW == 64
Chip8DisplayH == 32
CharacterSpritesOffset == 256
CharacterSpriteBytes == 5
ProgramOffset == 512
Chip8Frequency == 60 * 8
OpHistoryNum == 16
VBlankFrequency == 60
MemSize == 4096
NumRegs == 16
StackSize == 16
NumKeys == 16
DispSize == 2048
InitialSP == 15
NoKey == 255

characterSprites ==
    << 240, 144, 144, 144, 240,
        32,  96,  32,  32, 112,
       240,  16, 240, 128, 240,
       240,  16, 240,  16, 240,
       144, 144, 240,  16,  16,
       240, 128, 240,  16, 240,
       240, 128, 240, 144, 240,
       240,  16,  32,  64,  64,
       240, 144, 240, 144, 240,
       240, 144, 240,  16, 240,
       240, 144, 240, 144, 144,
       224, 144, 224, 144, 224,
       240, 128, 128, 128, 240,
       224, 144, 144, 144, 224,
       240, 128, 240, 128, 240,
       240, 128, 240, 128, 128 >>

---------------------------------------------------------------------------
\* Go's fixed-width integers and bit operators.

U8(n) == n % 256

U16(n) == n % 65536

Pow2(k) == 2 ^ k

Bit(b, k) == (b \div Pow2(k)) % 2

RECURSIVE BitAndN(_, _, _)
BitAndN(a, b, k) ==
    IF k = 0 THEN 0
    ELSE Pow2(k - 1) * (Bit(a, k - 1) * Bit(b, k - 1)) + BitAndN(a, b, k - 1)

RECURSIVE BitOrN(_, _, _)
BitOrN(a, b, k) ==
    IF k = 0 THEN 0
    ELSE Pow2(k - 1) * (IF Bit(a, k - 1) + Bit(b, k - 1) > 0 THEN 1 ELSE 0)
         + BitOrN(a, b, k - 1)

RECURSIVE BitXorN(_, _, _)
BitXorN(a, b, k) ==
    IF k = 0 THEN 0
    ELSE Pow2(k - 1) * ((Bit(a, k - 1) + Bit(b, k - 1)) % 2) + BitXorN(a, b, k - 1)

And8(a, b) == BitAndN(a, b, 8)

Or8(a, b) == BitOrN(a, b, 8)

Xor8(a, b) == BitXorN(a, b, 8)

Or16(a, b) == BitOrN(a, b, 16)

---------------------------------------------------------------------------
\* fmt.Sprintf verbs used by the trace records.

HexDigits == <<"0", "1", "2", "3", "4", "5", "6", "7",
               "8", "9", "A", "B", "C", "D", "E", "F">>

\* %X : upper-case hexadecimal, no padding
RECURSIVE FmtX(_)
FmtX(n) ==
    IF n < 16 THEN HexDigits[n + 1]
    ELSE FmtX(n \div 16) \o HexDigits[(n % 16) + 1]

\* number of hexadecimal digits of n
RECURSIVE HexLen(_)
HexLen(n) == IF n < 16 THEN 1 ELSE 1 + HexLen(n \div 16)

RECURSIVE Zeros(_)
Zeros(k) == IF k <= 0 THEN "" ELSE "0" \o Zeros(k - 1)

\* %0wX : upper-case hexadecimal, zero-padded to at least w digits
FmtXW(n, w) == Zeros(w - HexLen(n)) \o FmtX(n)

\* %d for the 4-bit count operand
FmtD(n) == IF n < 10 THEN HexDigits[n + 1] ELSE "1" \o HexDigits[n - 9]

---------------------------------------------------------------------------
\* newChip8 (emulator/chip8.go): Go's copy() copies min(len(dst), len(src))
\* elements, so program bytes that do not fit below the end of memory are
\* dropped; the sprite table is copied after the program.

CopyLen(dstLen, srcLen) == IF srcLen < dstLen THEN srcLen ELSE dstLen

\* faulty variant: the stack pointer is left at its zero value
newChip8_spZero(b) ==
    LET m == [a \in 0..(MemSize - 1) |->
                IF a >= CharacterSpritesOffset
                   /\ a < CharacterSpritesOffset + Len(characterSprites)
                THEN characterSprites[a - CharacterSpritesOffset + 1]
                ELSE IF a >= ProgramOffset /\ a < ProgramOffset + Len(b)
                THEN b[a - ProgramOffset + 1] ELSE 0]
    IN  [ mem   |-> m,
          pc    |-> ProgramOffset,
          v     |-> [r \in 0..(NumRegs - 1) |-> 0],
          i     |-> 0,
          dt    |-> 0,
          st    |-> 0,
          sp    |-> 0,
          stack |-> [s \in 0..(StackSize - 1) |-> 0],
          keys  |-> [k2 \in 0..(NumKeys - 1) |-> 0],
          disp  |-> [d \in 0..(DispSize - 1) |-> 0],
          ophistory      |-> [h \in 0..(OpHistoryNum - 1) |-> ""],
          ophistoryIndex |-> 0 ]

\* faulty variant: the bytes that do not fit below the end of memory are
\* stored from address 0 on
newChip8_overrun(b) ==
    LET m1 == [a \in 0..(MemSize - 1) |->
                 IF a >= ProgramOffset /\ a < ProgramOffset + Len(b)
                 THEN b[a - ProgramOffset + 1]
                 ELSE IF a + MemSize < ProgramOffset + Len(b)
                 THEN b[a + MemSize - ProgramOffset + 1] ELSE 0]
        m2 == [a \in 0..(MemSize - 1) |->
                 IF a >= CharacterSpritesOffset
                    /\ a < CharacterSpritesOffset + Len(characterSprites)
                 THEN characterSprites[a - CharacterSpritesOffset + 1] ELSE m1[a]]
    IN  [ mem   |-> m2,
          pc    |-> ProgramOffset,
          v     |-> [r \in 0..(NumRegs - 1) |-> 0],
          i     |-> 0,
          dt    |-> 0,
          st    |-> 0,
          sp    |-> InitialSP,
          stack |-> [s \in 0..(StackSize - 1) |-> 0],
          keys  |-> [k2 \in 0..(NumKeys - 1) |-> 0],
          disp  |-> [d \in 0..(DispSize - 1) |-> 0],
          ophistory      |-> [h \in 0..(OpHistoryNum - 1) |-> ""],
          ophistoryIndex |-> 0 ]

newChip8(b) ==
    LET n  == CopyLen(MemSize - ProgramOffset, Len(b))
        m1 == [a \in 0..(MemSize - 1) |->
                 IF a >= ProgramOffset /\ a < ProgramOffset + n
                 THEN b[a - ProgramOffset + 1] ELSE 0]
        k  == CopyLen(MemSize - CharacterSpritesOffset, Len(characterSprites))
        m2 == [a \in 0..(MemSize - 1) |->
                 IF a >= CharacterSpritesOffset /\ a < CharacterSpritesOffset + k
                 THEN characterSprites[a - CharacterSpritesOffset + 1] ELSE m1[a]]
    IN  [ mem   |-> m2,
          pc    |-> ProgramOffset,
          v     |-> [r \in 0..(NumRegs - 1) |-> 0],
          i     |-> 0,
          dt    |-> 0,
          st    |-> 0,
          sp    |-> InitialSP,
          stack |-> [s \in 0..(StackSize - 1) |-> 0],
          keys  |-> [k2 \in 0..(NumKeys - 1) |-> 0],
          disp  |-> [d \in 0..(DispSize - 1) |-> 0],
          ophistory      |-> [h \in 0..(OpHistoryNum - 1) |-> ""],
          ophistoryIndex |-> 0 ]

---------------------------------------------------------------------------
\* Outcomes of a call into the machine: it returns ("ok"), the process is
\* ended by log.Fatalf ("fatal"), or by a Go run-time panic ("panic").

Ok(c) == [c |-> c, out |-> "ok"]

Fatal(c) == [c |-> c, out |-> "fatal"]

Panic(c) == [c |-> c, out |-> "panic"]

\* a handler's result: the machine, the outcome, the mnemonic it formatted
Done(c, mn) == [c |-> c, out |-> "ok", mn |-> mn]

Abort(r) == [c |-> r.c, out |-> r.out, mn |-> ""]

---------------------------------------------------------------------------
\* emulator/chip8.go

\* faulty variant: the timers are decremented without the test for zero
decrementTimer_unguarded(c) ==
    [c EXCEPT !.dt = U8(c.dt + 255), !.st = U8(c.st + 255)]

decrementTimer(c) ==
    LET c1 == IF c.dt > 0 THEN [c EXCEPT !.dt = c.dt - 1] ELSE c
    IN  IF c1.st > 0 THEN [c1 EXCEPT !.st = c1.st - 1] ELSE c1

\* faulty variant: the program counter is not advanced by the fetch
fetchOpcode_noAdvance(c) ==
    IF c.pc >= MemSize \/ U16(c.pc + 1) >= MemSize
    THEN [c |-> c, out |-> "panic", op |-> 0]
    ELSE [c   |-> c,
          out |-> "ok",
          op  |-> Or16(U16(c.mem[c.pc] * 256), c.mem[U16(c.pc + 1)])]

\* op := uint16(mem[pc])<<8 | uint16(mem[pc+1]); pc += 2
fetchOpcode(c) ==
    IF c.pc >= MemSize \/ U16(c.pc + 1) >= MemSize
    THEN [c |-> c, out |-> "panic", op |-> 0]
    ELSE [c   |-> [c EXCEPT !.pc = U16(c.pc + 2)],
          out |-> "ok",
          op  |-> Or16(U16(c.mem[c.pc] * 256), c.mem[U16(c.pc + 1)])]

updateCarryFlag(c, b) ==
    IF b THEN [c EXCEPT !.v[15] = 1] ELSE [c EXCEPT !.v[15] = 0]

\* faulty variant: the pointer is decremented before the store
pushStack_decFirst(c, val) ==
    LET sp1 == U8(c.sp + 255)
    IN  IF sp1 >= StackSize THEN Panic([c EXCEPT !.sp = sp1])
        ELSE Ok([c EXCEPT !.stack[sp1] = val, !.sp = sp1])

\* stack[sp] = v; sp--
pushStack(c, val) ==
    IF c.sp >= StackSize
    THEN Panic(c)
    ELSE Ok([c EXCEPT !.stack[c.sp] = val, !.sp = U8(c.sp + 255)])

\* sp++; return stack[sp]
popStack(c) ==
    LET c1 == [c EXCEPT !.sp = U8(c.sp + 1)]
    IN  IF c1.sp >= StackSize
        THEN [c |-> c1, out |-> "panic", r |-> 0]
        ELSE [c |-> c1, out |-> "ok", r |-> c1.stack[c1.sp]]

\* faulty variant: a target past the right edge wraps to the left edge
drawRow_wrap(disp, b, x, ty) ==
    [p \in 0..(DispSize - 1) |->
        LET ix == ((p % Chip8DisplayW) + Chip8DisplayW - x) % Chip8DisplayW
        IN  IF p \div Chip8DisplayW = ty /\ ix < 8
            THEN Xor8(disp[p], And8(b \div Pow2(7 - ix), 1))
            ELSE disp[p]]

\* faulty variant: the sprite bit is ORed into the cell
drawRow_or(disp, b, x, ty) ==
    [p \in 0..(DispSize - 1) |->
        LET ix == (p % Chip8DisplayW) - x
        IN  IF p \div Chip8DisplayW = ty /\ ix >= 0 /\ ix < 8
            THEN Or8(disp[p], And8(b \div Pow2(7 - ix), 1))
            ELSE disp[p]]

\* faulty variant: the sprite bit is added to the cell
drawRow_add(disp, b, x, ty) ==
    [p \in 0..(DispSize - 1) |->
        LET ix == (p % Chip8DisplayW) - x
        IN  IF p \div Chip8DisplayW = ty /\ ix >= 0 /\ ix < 8
            THEN U8(disp[p] + And8(b \div Pow2(7 - ix), 1))
            ELSE disp[p]]

\* the inner loop of draw for one sprite byte b = sm[iy] on screen row ty:
\* c.disp[ty*W+tx] ^= (b >> (7 - ix)) & 0x01 for each ix with tx = x + ix < W
\* (the eight targets are distinct cells)
drawRow(disp, b, x, ty) ==
    [p \in 0..(DispSize - 1) |->
        LET ix == (p % Chip8DisplayW) - x
        IN  IF p \div Chip8DisplayW = ty /\ ix >= 0 /\ ix < 8
            THEN Xor8(disp[p], And8(b \div Pow2(7 - ix), 1))
            ELSE disp[p]]

\* if s == 1 && d == 1 { flipped = true }, over the same eight targets
rowFlipped(disp, b, x, ty) ==
    \E ix \in 0..7 :
        /\ x + ix < Chip8DisplayW
        /\ disp[ty * Chip8DisplayW + x + ix] = 1
        /\ And8(b \div Pow2(7 - ix), 1) = 1

\* the outer loop of draw.  A row none of whose targets is inside the grid
\* (ty >= H, or x >= W so that every tx >= W) reads no sprite byte; any other
\* row reads sm[iy] at its first target, which is out of range past the end
\* of memory.
RECURSIVE drawLoop(_, _, _, _, _, _, _, _)
drawLoop(disp, mem, i, x, y, n, iy, flipped) ==
    IF iy >= n
    THEN [disp |-> disp, flipped |-> flipped, out |-> "ok"]
    ELSE LET ty == y + iy
         IN  IF x >= Chip8DisplayW \/ ty >= Chip8DisplayH
             THEN drawLoop(disp, mem, i, x, y, n, iy + 1, flipped)
             ELSE IF i + iy >= MemSize
             THEN [disp |-> disp, flipped |-> flipped, out |-> "panic"]
             ELSE drawLoop(drawRow(disp, mem[i + iy], x, ty), mem, i, x, y, n,
                           iy + 1, flipped \/ rowFlipped(disp, mem[i + iy], x, ty))

\* sm := c.mem[c.i:] panics when i is past the end of memory
draw(c, x, y, n) ==
    IF c.i > MemSize
    THEN [c |-> c, out |-> "panic", flipped |-> FALSE]
    ELSE LET r == drawLoop(c.disp, c.mem, c.i, x, y, n, 0, FALSE)
         IN  [c |-> [c EXCEPT !.disp = r.disp], out |-> r.out, flipped |-> r.flipped]

\* faulty variant: the scan keeps the last pressed key it meets
pressedAnyKey_last(c) ==
    IF \E k \in 0..(NumKeys - 1) : c.keys[k] = 1
    THEN CHOOSE k \in 0..(NumKeys - 1) :
            c.keys[k] = 1 /\ \A j \in (k + 1)..(NumKeys - 1) : c.keys[j] # 1
    ELSE NoKey

pressedAnyKey(c) ==
    IF \E k \in 0..(NumKeys - 1) : c.keys[k] = 1
    THEN CHOOSE k \in 0..(NumKeys - 1) :
            c.keys[k] = 1 /\ \A j \in 0..(k - 1) : c.keys[j] # 1
    ELSE NoKey

---------------------------------------------------------------------------
\* emulator/opcodes.go: the handlers of execOpcode, one per case of the
\* switch.  Each yields the machine, the outcome and the mnemonic.

Reg(x) == "V" \o FmtX(x)

\* case 0x0000
op0(c, op) ==
    IF op = 224
    THEN Done([c EXCEPT !.disp = [d \in 0..(DispSize - 1) |-> 0]], "CLS  ")
    ELSE IF op = 238
    THEN LET r == popStack(c)
         IN  IF r.out # "ok" THEN Abort(r)
             ELSE Done([r.c EXCEPT !.pc = r.r], "RET  ")
    ELSE Abort(Fatal(c))

\* case 0x1000
opGOTO(c, nnn) == Done([c EXCEPT !.pc = nnn], "GOTO " \o FmtXW(nnn, 3))

\* case 0x2000
opCALL(c, nnn) ==
    LET r == pushStack(c, c.pc)
    IN  IF r.out # "ok" THEN Abort(r)
        ELSE Done([r.c EXCEPT !.pc = nnn], "CALL " \o FmtXW(nnn, 3))

\* if cond { c.pc += 2 }
Skip(c, cond) == IF cond THEN [c EXCEPT !.pc = U16(c.pc + 2)] ELSE c

\* case 0x3000
opSEimm(c, x, nn) ==
    Done(Skip(c, c.v[x] = nn), "SE   " \o Reg(x) \o ",#" \o FmtXW(nn, 2))

\* case 0x4000
opSNEimm(c, x, nn) ==
    Done(Skip(c, c.v[x] # nn), "SNE  " \o Reg(x) \o ",#" \o FmtXW(nn, 2))

\* case 0x5000
opSEreg(c, x, y) ==
    Done(Skip(c, c.v[x] = c.v[y]), "SE   " \o Reg(x) \o "," \o Reg(y))

\* case 0x6000
opLDimm(c, x, nn) ==
    Done([c EXCEPT !.v[x] = nn], "LD   " \o Reg(x) \o ",#" \o FmtXW(nn, 2))

\* faulty variant: the add records its carry in the flag register
opADDimm_carry(c, x, nn) ==
    Done(updateCarryFlag([c EXCEPT !.v[x] = U8(c.v[x] + nn)], (c.v[x] + nn) > 255),
         "ADD  " \o Reg(x) \o ",#" \o FmtXW(nn, 2))

\* case 0x7000
opADDimm(c, x, nn) ==
    Done([c EXCEPT !.v[x] = U8(c.v[x] + nn)],
         "ADD  " \o Reg(x) \o ",#" \o FmtXW(nn, 2))

\* faulty variant: the sum is compared in 8 bits, so no carry is ever seen
opADDreg_carry8(c, x, y) ==
    LET carried == U8(c.v[x] + c.v[y]) > 255
        c1 == [c EXCEPT !.v[x] = U8(c.v[x] + c.v[y])]
    IN  Done(updateCarryFlag(c1, carried), "ADD  " \o Reg(x) \o "," \o Reg(y))

\* 8XY4: carried is computed first, v[x] is stored next, the flag last
opADDreg(c, x, y) ==
    LET carried == (c.v[x] + c.v[y]) > 255
        c1 == [c EXCEPT !.v[x] = U8(c.v[x] + c.v[y])]
    IN  Done(updateCarryFlag(c1, carried), "ADD  " \o Reg(x) \o "," \o Reg(y))

\* faulty variant: equal operands count as a borrow
opSUB_strict(c, x, y) ==
    LET borrowed == c.v[x] <= c.v[y]
        c1 == [c EXCEPT !.v[x] = U8(c.v[x] + 256 - c.v[y])]
    IN  Done(updateCarryFlag(c1, ~borrowed), "SUB  " \o Reg(x) \o "," \o Reg(y))

\* 8XY5
opSUB(c, x, y) ==
    LET borrowed == c.v[x] < c.v[y]
        c1 == [c EXCEPT !.v[x] = U8(c.v[x] + 256 - c.v[y])]
    IN  Done(updateCarryFlag(c1, ~borrowed), "SUB  " \o Reg(x) \o "," \o Reg(y))

\* 8XY6: the flag is stored first, then v[x] (read again) is shifted
opSHR(c, x) ==
    LET c1 == updateCarryFlag(c, And8(c.v[x], 1) = 1)
    IN  Done([c1 EXCEPT !.v[x] = c1.v[x] \div 2], "SHR  " \o Reg(x))

\* 8XY7
opSUBN(c, x, y) ==
    LET borrowed == c.v[y] < c.v[x]
        c1 == [c EXCEPT !.v[x] = U8(c.v[y] + 256 - c.v[x])]
    IN  Done(updateCarryFlag(c1, ~borrowed), "SUBN " \o Reg(x) \o "," \o Reg(y))

\* 8XYE: the flag is stored first, then v[x] (read again) is shifted
opSHL(c, x) ==
    LET c1 == updateCarryFlag(c, (c.v[x] \div 128) = 1)
    IN  Done([c1 EXCEPT !.v[x] = U8(c1.v[x] * 2)], "SHL  " \o Reg(x))

\* case 0x8000: the inner switch has no default, so an unknown selector
\* leaves the machine alone and the mnemonic empty
op8(c, x, y, sel) ==
    CASE sel = 0 ->
           Done([c EXCEPT !.v[x] = c.v[y]], "LD   " \o Reg(x) \o "," \o Reg(y))
      [] sel = 1 ->
           Done([c EXCEPT !.v[x] = Or8(c.v[x], c.v[y])],
                "OR   " \o Reg(x) \o "," \o Reg(y))
      [] sel = 2 ->
           Done([c EXCEPT !.v[x] = And8(c.v[x], c.v[y])],
                "AND  " \o Reg(x) \o "," \o Reg(y))
      [] sel = 3 ->
           Done([c EXCEPT !.v[x] = Xor8(c.v[x], c.v[y])],
                "XOR  " \o Reg(x) \o "," \o Reg(y))
      [] sel = 4 -> opADDreg(c, x, y)
      [] sel = 5 -> opSUB(c, x, y)
      [] sel = 6 -> opSHR(c, x)
      [] sel = 7 -> opSUBN(c, x, y)
      [] sel = 14 -> opSHL(c, x)
      [] OTHER -> Done(c, "")

\* case 0x9000
opSNEreg(c, x, y) ==
    Done(Skip(c, c.v[x] # c.v[y]), "SNE  " \o Reg(x) \o "," \o Reg(y))

\* case 0xA000
opLDI(c, nnn) == Done([c EXCEPT !.i = nnn], "LD   I,#" \o FmtXW(nnn, 4))

\* case 0xB000
opJPV0(c, nnn) ==
    Done([c EXCEPT !.pc = U16(c.v[0] + nnn)], "JP   V0,#" \o FmtXW(nnn, 4))

\* case 0xC000: rnd is the value rand.Uint32() returns
opRND(c, x, nn, rnd) ==
    Done([c EXCEPT !.v[x] = And8(U8(rnd), nn)],
         "RND  " \o Reg(x) \o ",#" \o FmtXW(nn, 2))

\* case 0xD000
opDRW(c, x, y, n) ==
    LET r == draw(c, c.v[x], c.v[y], n)
    IN  IF r.out # "ok" THEN Abort(r)
        ELSE Done(updateCarryFlag(r.c, r.flipped),
                  "DRW  " \o Reg(x) \o "," \o Reg(y) \o "," \o FmtD(n))

\* faulty variant: EXA1 tests the key the way EX9E does
opE_sameTest(c, x, nn) ==
    CASE nn = 158 ->
           IF c.v[x] >= NumKeys THEN Abort(Panic(c))
           ELSE Done(Skip(c, c.keys[c.v[x]] = 1), "SKP  " \o Reg(x))
      [] nn = 161 ->
           IF c.v[x] >= NumKeys THEN Abort(Panic(c))
           ELSE Done(Skip(c, c.keys[c.v[x]] = 1), "SKNP " \o Reg(x))
      [] OTHER -> Done(c, "")

\* case 0xE000: keys[v[x]] is out of range when v[x] > 15; no default
opE(c, x, nn) ==
    CASE nn = 158 ->
           IF c.v[x] >= NumKeys THEN Abort(Panic(c))
           ELSE Done(Skip(c, c.keys[c.v[x]] = 1), "SKP  " \o Reg(x))
      [] nn = 161 ->
           IF c.v[x] >= NumKeys THEN Abort(Panic(c))
           ELSE Done(Skip(c, c.keys[c.v[x]] = 0), "SKNP " \o Reg(x))
      [] OTHER -> Done(c, "")

\* faulty variant: the tens digit is taken without the "% 100"
opBCD_tens(c, x) ==
    LET a0 == U16(c.i + 0)
        a1 == U16(c.i + 1)
        a2 == U16(c.i + 2)
    IN  IF a0 >= MemSize THEN Abort(Panic(c))
        ELSE LET c1 == [c EXCEPT !.mem[a0] = c.v[x] \div 100]
             IN  IF a1 >= MemSize THEN Abort(Panic(c1))
                 ELSE LET c2 == [c1 EXCEPT !.mem[a1] = c1.v[x] \div 10]
                      IN  IF a2 >= MemSize THEN Abort(Panic(c2))
                          ELSE Done([c2 EXCEPT !.mem[a2] = c2.v[x] % 10],
                                    "LD   B," \o Reg(x))

\* FX33: three stores, each bounds-checked when it is reached
opBCD(c, x) ==
    LET a0 == U16(c.i + 0)
        a1 == U16(c.i + 1)
        a2 == U16(c.i + 2)
    IN  IF a0 >= MemSize THEN Abort(Panic(c))
        ELSE LET c1 == [c EXCEPT !.mem[a0] = c.v[x] \div 100]
             IN  IF a1 >= MemSize THEN Abort(Panic(c1))
                 ELSE LET c2 == [c1 EXCEPT !.mem[a1] = (c1.v[x] % 100) \div 10]
                      IN  IF a2 >= MemSize THEN Abort(Panic(c2))
                          ELSE Done([c2 EXCEPT !.mem[a2] = c2.v[x] % 10],
                                    "LD   B," \o Reg(x))

\* faulty variant: the copied range excludes VX (c.v[:x])
opDump_exclusive(c, x) ==
    IF c.i > MemSize THEN Abort(Panic(c))
    ELSE LET n == CopyLen(MemSize - c.i, x)
         IN  Done([c EXCEPT !.mem = [a \in 0..(MemSize - 1) |->
                                       IF a >= c.i /\ a < c.i + n
                                       THEN c.v[a - c.i] ELSE c.mem[a]]],
                  "LD   [I]," \o Reg(x))

\* FX55: copy(c.mem[c.i:], c.v[:x+1])
opDump(c, x) ==
    IF c.i > MemSize THEN Abort(Panic(c))
    ELSE LET n == CopyLen(MemSize - c.i, x + 1)
         IN  Done([c EXCEPT !.mem = [a \in 0..(MemSize - 1) |->
                                       IF a >= c.i /\ a < c.i + n
                                       THEN c.v[a - c.i] ELSE c.mem[a]]],
                  "LD   [I]," \o Reg(x))

\* FX65: copy(c.v[:x+1], c.mem[c.i:])
opLoad(c, x) ==
    IF c.i > MemSize THEN Abort(Panic(c))
    ELSE LET n == CopyLen(x + 1, MemSize - c.i)
         IN  Done([c EXCEPT !.v = [r \in 0..(NumRegs - 1) |->
                                     IF r < n THEN c.mem[c.i + r] ELSE c.v[r]]],
                  "LD   " \o Reg(x) \o ",[I]")

\* case 0xF000: no default
opF(c, x, nn) ==
    CASE nn = 7  -> Done([c EXCEPT !.v[x] = c.dt], "LD   " \o Reg(x) \o ",DT")
      [] nn = 10 ->
           IF pressedAnyKey(c) = NoKey
           THEN Done([c EXCEPT !.pc = U16(c.pc + 65534)], "LD   " \o Reg(x) \o ",K")
           ELSE Done([c EXCEPT !.v[x] = pressedAnyKey(c)], "LD   " \o Reg(x) \o ",K")
      [] nn = 21 -> Done([c EXCEPT !.dt = c.v[x]], "LD   DT," \o Reg(x))
      [] nn = 24 -> Done([c EXCEPT !.st = c.v[x]], "LD   ST," \o Reg(x))
      [] nn = 30 -> Done([c EXCEPT !.i = U16(c.i + c.v[x])], "ADD  I," \o Reg(x))
      [] nn = 41 ->
           Done([c EXCEPT !.i = U16(CharacterSpritesOffset
                                    + c.v[x] * CharacterSpriteBytes)],
                "LD   F," \o Reg(x))
      [] nn = 51  -> opBCD(c, x)
      [] nn = 85  -> opDump(c, x)
      [] nn = 101 -> opLoad(c, x)
      [] OTHER -> Done(c, "")

\* the outer switch on op & 0xF000
dispatch(c, op, rnd) ==
    LET h   == op \div 4096
        nnn == op % 4096
        nn  == nnn % 256
        x   == (nnn \div 256) % 16
        y   == (nnn \div 16) % 16
        n   == nn % 16
    IN  CASE h = 0  -> op0(c, op)
          [] h = 1  -> opGOTO(c, nnn)
          [] h = 2  -> opCALL(c, nnn)
          [] h = 3  -> opSEimm(c, x, nn)
          [] h = 4  -> opSNEimm(c, x, nn)
          [] h = 5  -> opSEreg(c, x, y)
          [] h = 6  -> opLDimm(c, x, nn)
          [] h = 7  -> opADDimm(c, x, nn)
          [] h = 8  -> op8(c, x, y, nnn % 16)
          [] h = 9  -> opSNEreg(c, x, y)
          [] h = 10 -> opLDI(c, nnn)
          [] h = 11 -> opJPV0(c, nnn)
          [] h = 12 -> opRND(c, x, nn, rnd)
          [] h = 13 -> opDRW(c, x, y, n)
          [] h = 14 -> opE(c, x, nn)
          [] h = 15 -> opF(c, x, nn)

\* fmt.Sprintf("%03X-%04X %s", pc, op, mnemonic)
TraceRecord(pc, op, mn) == FmtXW(pc, 3) \o "-" \o FmtXW(op, 4) \o " " \o mn

\* faulty variant: the write position is advanced before the record is stored
appendHistory_advanceFirst(c, pc, op, mn) ==
    [c EXCEPT !.ophistory[(c.ophistoryIndex + 1) % OpHistoryNum] =
                  TraceRecord(pc, op, mn),
              !.ophistoryIndex = (c.ophistoryIndex + 1) % OpHistoryNum]

\* the last two statements of execOpcode
appendHistory(c, pc, op, mn) ==
    [c EXCEPT !.ophistory[c.ophistoryIndex] = TraceRecord(pc, op, mn),
              !.ophistoryIndex = (c.ophistoryIndex + 1) % OpHistoryNum]

execOpcode(c, op, rnd) ==
    LET pc == U16(c.pc + 65534)
        r  == dispatch(c, op, rnd)
    IN  IF r.out # "ok" THEN [c |-> r.c, out |-> r.out]
        ELSE Ok(appendHistory(r.c, pc, op, r.mn))

\* Chip8.step
step(c, rnd) ==
    LET f == fetchOpcode(c)
    IN  IF f.out # "ok" THEN [c |-> f.c, out |-> f.out]
        ELSE execOpcode(f.c, f.op, rnd)

---------------------------------------------------------------------------
\* The ROM images the machine is started with.  A ROM is a byte sequence;
\* Asm assembles 16-bit opcodes big-endian, the way the machine fetches them.

MaxKey == 1

\* values of rand.Uint32(); only the low eight bits survive "& uint32(nn)"
RandValues == {0, 165, 2147483647}

Keys == 0..MaxKey

Asm(words) ==
    [k \in 1..(2 * Len(words)) |->
        IF k % 2 = 1 THEN words[(k + 1) \div 2] \div 256
        ELSE words[k \div 2] % 256]

\* hexadecimal opcode nibbles to a 16-bit word
W(a, b, c, d) == a * 4096 + b * 256 + c * 16 + d

\* 0123: family 0, neither 00E0 nor 00EE
RomSys == Asm(<<W(0,1,2,3)>>)

\* 8018, E000, F000: selectors no handler matches; then zeros
RomUnknown == Asm(<<W(8,0,1,8), W(14,0,0,0), W(15,0,0,0)>>)

\* GOTO FFF: the next fetch reads mem[0x1000]
RomJumpEnd == Asm(<<W(1,15,15,15)>>)

\* RET on an empty stack
RomRet == Asm(<<W(0,0,14,14)>>)

\* 200 CALL 200: unbounded recursion
RomRecurse == Asm(<<W(2,2,0,0)>>)

\* 200 CALL 204; 202 0000; and for k = 1..15 at 204 + 4(k-1): CALL next; RET;
\* at 240: RET.  Sixteen nested calls, then sixteen returns.
RomChain ==
    Asm(<<W(2,2,0,4), 0>>
        \o [j \in 1..30 |-> IF j % 2 = 1 THEN W(2,2,0,4) + 4 * ((j + 1) \div 2)
                            ELSE W(0,0,14,14)]
        \o <<W(0,0,14,14)>>)

\* LD V0,#10; SKP V0
RomKeyIndex == Asm(<<W(6,0,1,0), W(14,0,9,14)>>)

\* 200 LD V4,#09; 202 LD V4,K; 204 LD V5,#01
RomWait == Asm(<<W(6,4,0,9), W(15,4,0,10), W(6,5,0,1)>>)

\* LD V0,#03; LD DT,V0; LD V1,#02; LD ST,V1; 208 LD V2,DT; GOTO 208
RomTimers ==
    Asm(<<W(6,0,0,3), W(15,0,1,5), W(6,1,0,2), W(15,1,1,8), W(15,2,0,7),
          W(1,2,0,8)>>)

\* LD I,#200; LD V0,#AB; LD [I],V0 (over the code); LD I,#100; LD B,V0 (over
\* the sprite table); RND V1,#FF; CLS; 20E GOTO 20E
RomSelfModify ==
    Asm(<<W(10,2,0,0), W(6,0,10,11), W(15,0,5,5), W(10,1,0,0), W(15,0,3,3),
          W(12,1,15,15), W(0,0,14,0), W(1,2,0,14)>>)

\* LD I,#FFE; LD B,V0: the third digit goes to mem[0x1000]
RomBcdEnd == Asm(<<W(10,15,15,14), W(15,0,3,3)>>)

\* GOTO 200 followed by n - 2 non-zero bytes
RomFill(n) ==
    [k \in 1..n |-> IF k = 1 THEN 18 ELSE IF k = 2 THEN 0 ELSE (k % 251) + 1]

\* the largest program that fits between 0x200 and 0xFFF, and a longer one
MaxProgramLen == MemSize - ProgramOffset

FixedRoms ==
    { <<>>, RomSys, RomUnknown, RomJumpEnd, RomRet, RomRecurse, RomChain,
      RomKeyIndex, RomWait, RomTimers, RomSelfModify, RomBcdEnd,
      RomFill(MaxProgramLen), RomFill(MaxProgramLen + 6) }

\* Programs that draw: 200 LD V0,#vx; 202 LD V1,#vy; 204 LD I,#212;
\* 206 DRW V0,V1,n; 208 ADD V0,#dx; 20A DRW V0,V1,n; 20C DRW V0,V1,n; 20E CLS;
\* 210 0000; 212 sixteen bytes of sprite data.
SpriteData ==
    <<W(15,15,8,1), W(10,5,1,8), W(12,3,0,0), W(0,1,8,0),
      W(7,14,3,12), W(9,9,6,6), W(0,15,15,0), W(5,5,10,10)>>

DrawRom(vx, vy, n, dx) ==
    Asm(<<W(6,0,0,0) + vx, W(6,1,0,0) + vy, W(10,2,1,2), W(13,0,1,n),
          W(7,0,0,0) + dx, W(13,0,1,n), W(13,0,1,n), W(0,0,14,0), 0>>
        \o SpriteData)

DrawXs == {0, 5, 60, 63, 64, 255}

DrawYs == {0, 29, 32}

DrawNs == {0, 5, 15}

DrawDxs == {0, 2}

DrawRoms ==
    {DrawRom(vx, vy, n, dx) : vx \in DrawXs, vy \in DrawYs, n \in DrawNs, dx \in DrawDxs}

Roms == FixedRoms

\* Programs that compute: 200 LD Vx,#a; 202 LD Vy,#b; 204 8xy<sel>;
\* 206 ADD Vx,#b; 208 0000.
AluRom(x, y, a, b, sel) ==
    Asm(<<W(6,x,0,0) + a, W(6,y,0,0) + b, W(8,x,y,sel), W(7,x,0,0) + b, 0>>)

AluRegs == {0, 1, 15}

AluVals == {0, 1, 129, 255}

AluSels == {4, 5, 6, 7, 14}

AluRoms ==
    {AluRom(x, y, a, b, sel) :
        x \in AluRegs, y \in AluRegs, a \in AluVals, b \in AluVals, sel \in AluSels}

\* Programs that dump and load registers: 200 LD V0,#11; 202 LD V1,#22;
\* 204 LD VF,#F0; 206 LD I,#addr; 208 LD [I],Vx; 20A LD V0,#00; 20C LD V1,#00;
\* 20E LD VF,#00; 210 LD Vx,[I]; 212 0000.
DumpRom(x, addr) ==
    Asm(<<W(6,0,1,1), W(6,1,2,2), W(6,15,15,0), W(10,0,0,0) + addr, W(15,x,5,5),
          W(6,0,0,0), W(6,1,0,0), W(6,15,0,0), W(15,x,6,5), 0>>)

DumpXs == {0, 1, 2, 15}

\* a free page, the last sixteen cells, the last two cells, the sprite table
DumpAddrs == {768, 4080, 4094, 256}

DumpRoms == {DumpRom(x, addr) : x \in DumpXs, addr \in DumpAddrs}

\* Programs that store decimal digits: 200 LD Vx,#val; 202 LD I,#addr;
\* 204 LD B,Vx; 206 0000.
BcdRom(x, val, addr) ==
    Asm(<<W(6,x,0,0) + val, W(10,0,0,0) + addr, W(15,x,3,3), 0>>)

BcdXs == {0, 15}

BcdVals == {0, 6, 45, 99, 100, 123, 219, 255}

\* a free page, the last three cells, the last two cells, the code itself
BcdAddrs == {768, 4093, 4094, 516}

BcdRoms == {BcdRom(x, val, addr) : x \in BcdXs, val \in BcdVals, addr \in BcdAddrs}

MemRoms == DumpRoms \cup BcdRoms

\* Programs that skip: 200 LD V0,#a; 202 LD V1,#b; 204 LD V2,#k;
\* 206 SE V0,#01; 208 LD V3,#01; 20A SNE V0,#01; 20C LD V4,#01; 20E SE V0,V1;
\* 210 LD V5,#01; 212 SNE V0,V1; 214 LD V6,#01; 216 SKP V2; 218 LD V7,#01;
\* 21A SKNP V2; 21C LD V8,#01; 21E 0000.
SkipRom(a, b, k) ==
    Asm(<<W(6,0,0,0) + a, W(6,1,0,0) + b, W(6,2,0,0) + k,
          W(3,0,0,1), W(6,3,0,1), W(4,0,0,1), W(6,4,0,1),
          W(5,0,1,0), W(6,5,0,1), W(9,0,1,0), W(6,6,0,1),
          W(14,2,9,14), W(6,7,0,1), W(14,2,10,1), W(6,8,0,1), 0>>)

SkipVals == {0, 1}

SkipKeys == {0, 1, 2, 15}

SkipRoms == {SkipRom(a, b, k) : a \in SkipVals, b \in SkipVals, k \in SkipKeys}

\* 200 LD V0,#04; 202 JP V0,#204; 204 0000; 206 0000; 208 LD I,#123; 20A 0000
RomJumpV0 ==
    Asm(<<W(6,0,0,4), W(11,2,0,4), 0, 0, W(10,1,2,3), 0>>)

FlowRoms ==
    SkipRoms \cup { RomJumpV0, RomChain, RomTimers, RomWait, RomUnknown,
                    RomSelfModify, RomRet, RomKeyIndex, DrawRom(5, 0, 5, 0),
                    AluRom(0, 1, 255, 1, 4) }

---------------------------------------------------------------------------
\* The host (emulator/emulator.go): Run calls step and decrementTimer,
\* pollEvents sets and clears keys and resets the machine.

Outcome(out) == IF out = "ok" THEN "running" ELSE out

\* NewEmulator: running: true, focus: true, stepMode: sm (the -s flag); Run
\* starts with cycle := 0
HostStart(sm) ==
    [running |-> TRUE, focus |-> TRUE, stepMode |-> sm, cycle |-> 0, at |-> "loop"]

Init ==
    /\ rom \in Roms
    /\ chip8 = newChip8(rom)
    /\ status = "running"
    /\ host = HostStart(FALSE)
    /\ stepCalls = -1

Step ==
    /\ status = "running"
    /\ \E rnd \in RandValues :
          LET r == step(chip8, rnd)
          IN  /\ chip8' = r.c
              /\ status' = Outcome(r.out)
    /\ UNCHANGED <<rom, hostVars>>

Tick ==
    /\ status = "running"
    /\ chip8' = decrementTimer(chip8)
    /\ UNCHANGED <<rom, status, hostVars>>

KeyDown ==
    /\ status = "running"
    /\ \E k \in Keys : chip8' = [chip8 EXCEPT !.keys[k] = 1]
    /\ UNCHANGED <<rom, status, hostVars>>

KeyUp ==
    /\ status = "running"
    /\ \E k \in Keys : chip8' = [chip8 EXCEPT !.keys[k] = 0]
    /\ UNCHANGED <<rom, status, hostVars>>

\* faulty variant: the reset keeps the keypad of the old machine
Reset_keepsKeys ==
    /\ status = "running"
    /\ chip8' = [newChip8(rom) EXCEPT !.keys = chip8.keys]
    /\ UNCHANGED <<rom, status, hostVars>>

Reset ==
    /\ status = "running"
    /\ chip8' = newChip8(rom)
    /\ UNCHANGED <<rom, status, hostVars>>

DrawInit ==
    /\ rom \in DrawRoms
    /\ chip8 = newChip8(rom)
    /\ status = "running"
    /\ host = HostStart(FALSE)
    /\ stepCalls = -1

FlowInit ==
    /\ rom \in FlowRoms
    /\ chip8 = newChip8(rom)
    /\ status = "running"
    /\ host = HostStart(FALSE)
    /\ stepCalls = -1

MemInit ==
    /\ rom \in MemRoms
    /\ chip8 = newChip8(rom)
    /\ status = "running"
    /\ host = HostStart(FALSE)
    /\ stepCalls = -1

AluInit ==
    /\ rom \in AluRoms
    /\ chip8 = newChip8(rom)
    /\ status = "running"
    /\ host = HostStart(FALSE)
    /\ stepCalls = -1

Next == Step \/ Tick \/ KeyDown \/ KeyUp \/ Reset

Spec == Init /\ [][Next]_vars

DrawSpec == DrawInit /\ [][Next]_vars

AluSpec == AluInit /\ [][Next]_vars

MemSpec == MemInit /\ [][Next]_vars

FlowSpec == FlowInit /\ [][Next]_vars

---------------------------------------------------------------------------
\* The host loop itself (emulator/emulator.go): Run and pollEvents.

\* perVblankCycle := Chip8Frequency / VBlankFrequency
perVblankCycle == Chip8Frequency \div VBlankFrequency

\* 200 LD V0,#01; 202 LD DT,V0; 204 GOTO 204
RomIdle == Asm(<<W(6,0,0,1), W(15,0,1,5), W(1,2,0,4)>>)

HostRoms == {RomIdle, RomSys}

HostInit ==
    /\ rom \in HostRoms
    /\ chip8 = newChip8(rom)
    /\ status = "running"
    /\ host \in {HostStart(sm) : sm \in BOOLEAN}
    /\ stepCalls = -1

\* One pass through the body of "for e.running": cycle++, the step, the
\* vblank block; then Run enters pollEvents.  e.draw and e.updateSound change
\* no state of the model.
\* stepCalls counts the calls of chip8.step made since the last call of
\* decrementTimer, as long as the window has been focused and step mode off
\* ever since; it is -1 otherwise (also before the first decrementTimer).
LoopBody ==
    /\ status = "running"
    /\ host.running
    /\ host.at = "loop"
    /\ \E rnd \in RandValues :
          LET cycle1  == host.cycle + 1
              stepped == host.focus /\ ~host.stepMode
              r       == IF stepped THEN step(chip8, rnd) ELSE Ok(chip8)
              vblank  == cycle1 > perVblankCycle
              ticked  == vblank /\ host.focus
          IN  IF r.out # "ok"
              THEN /\ chip8' = r.c
                   /\ status' = Outcome(r.out)
                   /\ host' = [host EXCEPT !.cycle = cycle1]
                   /\ stepCalls' = stepCalls
              ELSE /\ chip8' = (IF ticked THEN decrementTimer(r.c) ELSE r.c)
                   /\ status' = "running"
                   /\ host' = [host EXCEPT !.cycle = (IF vblank THEN 0 ELSE cycle1),
                                           !.at = "poll"]
                   /\ stepCalls' =
                        IF ticked THEN (IF stepped THEN 0 ELSE -1)
                        ELSE IF stepped /\ stepCalls >= 0 THEN stepCalls + 1
                        ELSE stepCalls
    /\ UNCHANGED rom

\* pollEvents, one action per event sdl.PollEvent can return

\* the mapped keys the host programs are sent (scanCode2Key)
HostKeys == {0}

\* KEYDOWN of a mapped key
EvKeyDown ==
    /\ status = "running"
    /\ host.at = "poll"
    /\ \E k \in HostKeys : chip8' = [chip8 EXCEPT !.keys[k] = 1]
    /\ UNCHANGED <<rom, status, hostVars>>

\* KEYUP of a mapped key
EvKeyUp ==
    /\ status = "running"
    /\ host.at = "poll"
    /\ \E k \in HostKeys : chip8' = [chip8 EXCEPT !.keys[k] = 0]
    /\ UNCHANGED <<rom, status, hostVars>>

\* faulty variant: SPACE pauses and steps at once
EvSpace_pauseAndStep ==
    /\ status = "running"
    /\ host.at = "poll"
    /\ \E rnd \in RandValues :
          LET r == step(chip8, rnd)
          IN  /\ chip8' = r.c
              /\ status' = Outcome(r.out)
    /\ host' = [host EXCEPT !.stepMode = TRUE]
    /\ stepCalls' = -1
    /\ UNCHANGED rom

\* KEYDOWN of SPACE
EvSpace ==
    /\ status = "running"
    /\ host.at = "poll"
    /\ IF host.stepMode
       THEN /\ \E rnd \in RandValues :
                  LET r == step(chip8, rnd)
                  IN  /\ chip8' = r.c
                      /\ status' = Outcome(r.out)
            /\ UNCHANGED hostVars
       ELSE /\ host' = [host EXCEPT !.stepMode = TRUE]
            /\ stepCalls' = -1
            /\ UNCHANGED <<chip8, status>>
    /\ UNCHANGED rom

\* KEYDOWN of RETURN
EvReturn ==
    /\ status = "running"
    /\ host.at = "poll"
    /\ host' = (IF host.stepMode THEN [host EXCEPT !.stepMode = FALSE] ELSE host)
    /\ UNCHANGED <<rom, chip8, status, stepCalls>>

\* KEYDOWN of Z
EvReset == host.at = "poll" /\ Reset

\* WINDOWEVENT_FOCUS_LOST
EvFocusLost ==
    /\ status = "running"
    /\ host.at = "poll"
    /\ host' = [host EXCEPT !.focus = FALSE]
    /\ stepCalls' = -1
    /\ UNCHANGED <<rom, chip8, status>>

\* WINDOWEVENT_FOCUS_GAINED
EvFocusGained ==
    /\ status = "running"
    /\ host.at = "poll"
    /\ host' = [host EXCEPT !.focus = TRUE]
    /\ UNCHANGED <<rom, chip8, status, stepCalls>>

\* QuitEvent
EvQuit ==
    /\ status = "running"
    /\ host.at = "poll"
    /\ host' = [host EXCEPT !.running = FALSE]
    /\ UNCHANGED <<rom, chip8, status, stepCalls>>

\* sdl.PollEvent returns nil: pollEvents returns to the loop test
PollNil ==
    /\ status = "running"
    /\ host.at = "poll"
    /\ host' = [host EXCEPT !.at = "loop"]
    /\ UNCHANGED <<rom, chip8, status, stepCalls>>

HostNext ==
    \/ LoopBody
    \/ EvKeyDown
    \/ EvKeyUp
    \/ EvSpace
    \/ EvReturn
    \/ EvReset
    \/ EvFocusLost
    \/ EvFocusGained
    \/ EvQuit
    \/ PollNil

HostSpec == HostInit /\ [][HostNext]_vars

---------------------------------------------------------------------------
\* Vocabulary of the properties.

\* the big-endian word at the program counter
CanFetch(c) == c.pc + 1 < MemSize

FetchedOp(c) == c.mem[c.pc] * 256 + c.mem[c.pc + 1]

Family(op) == op \div 4096

XOf(op) == (op \div 256) % 16

LowByte(op) == op % 256

LowNibble(op) == op % 16

YOf(op) == (op \div 16) % 16

Flag(b) == IF b THEN 1 ELSE 0

RingEmpty(c) ==
    c.ophistoryIndex = 0 /\ \A h \in 0..(OpHistoryNum - 1) : c.ophistory[h] = ""

\* the most recent trace record, and the one before it
LastRecord(c) == c.ophistory[(c.ophistoryIndex + OpHistoryNum - 1) % OpHistoryNum]

PrevRecord(c) == c.ophistory[(c.ophistoryIndex + OpHistoryNum - 2) % OpHistoryNum]

\* this transition is a step that ran a handler to its end: only such a step
\* writes a (non-empty) record at the write position and advances it
StepCompleted ==
    /\ status = "running"
    /\ chip8'.ophistoryIndex = (chip8.ophistoryIndex + 1) % OpHistoryNum
    /\ chip8'.ophistory[chip8.ophistoryIndex] # ""

\* a completed step whose fetched opcode is 8XY<sel>
Completed8(sel) ==
    /\ CanFetch(chip8)
    /\ Family(FetchedOp(chip8)) = 8
    /\ LowNibble(FetchedOp(chip8)) = sel
    /\ StepCompleted

\* a completed step whose fetched opcode is FX<nn>
CompletedF(nn) ==
    /\ CanFetch(chip8)
    /\ Family(FetchedOp(chip8)) = 15
    /\ LowByte(FetchedOp(chip8)) = nn
    /\ StepCompleted

\* this transition emptied a non-empty trace ring: only a reset does
RingCleared == status = "running" /\ ~RingEmpty(chip8) /\ RingEmpty(chip8')

PressedKeys(c) == {k \in 0..(NumKeys - 1) : c.keys[k] = 1}

MinOf(S) == CHOOSE m \in S : \A e \in S : m <= e

Max0(n) == IF n < 0 THEN 0 ELSE n

IsCall(op) == Family(op) = 2

IsRet(op) == op = 238

\* opcodes no handler of execOpcode matches
Unimplemented(op) ==
    \/ Family(op) = 0 /\ op \notin {224, 238}
    \/ Family(op) = 8 /\ LowNibble(op) \notin {0, 1, 2, 3, 4, 5, 6, 7, 14}
    \/ Family(op) = 14 /\ LowByte(op) \notin {158, 161}
    \/ Family(op) = 15 /\ LowByte(op) \notin {7, 10, 21, 24, 30, 41, 51, 85, 101}

---------------------------------------------------------------------------
\* C1: a call to step either executes one instruction or ends with the fatal
\* unimplemented-instruction condition; no run-time fault (an out-of-range
\* memory, stack or keypad index) is reachable.
C1_StepNeverFaults == status \in {"running", "fatal"}

\* C2: a step that fetches an opcode of family 0 other than 00E0 and 00EE, or
\* an opcode of family 8, E or F whose selector matches no handler, never
\* completes as an executed instruction (it ends in the fatal condition).
C2_UnknownOpcodeIsFatal ==
    [][(status = "running" /\ CanFetch(chip8) /\ Unimplemented(FetchedOp(chip8)))
         => ~StepCompleted]_vars

\* The machine initialize(b) describes, for a program of at most 3584 bytes.
IsInitialized(c, b) ==
    /\ \A a \in 0..(MemSize - 1) :
          c.mem[a] = IF a >= 256 /\ a <= 335 THEN characterSprites[a - 255]
                     ELSE IF a >= 512 /\ a - 512 < Len(b) THEN b[a - 511]
                     ELSE 0
    /\ \A r \in 0..15 : c.v[r] = 0
    /\ c.i = 0 /\ c.dt = 0 /\ c.st = 0
    /\ \A k \in 0..15 : c.keys[k] = 0
    /\ \A k \in 0..15 : c.stack[k] = 0
    /\ \A d \in 0..2047 : c.disp[d] = 0
    /\ \A h \in 0..15 : c.ophistory[h] = ""
    /\ c.ophistoryIndex = 0
    /\ c.pc = 512
    /\ c.sp = 15
    /\ DOMAIN c.mem = 0..4095 /\ DOMAIN c.disp = 0..2047

\* C3: for every program of at most 3584 bytes the machine initialize returns
\* (at start-up, and again at every reset) holds the sprite table at
\* 0x100..0x14F, the program from 0x200, zero everywhere else, an empty trace
\* ring, PC = 0x200 and SP = 15.
C3_InitializeLayout ==
    /\ (Len(rom) <= 3584 => IsInitialized(chip8, rom))
    /\ [][(Len(rom) <= 3584 /\ RingCleared) => IsInitialized(chip8', rom)]_vars

\* C3 witness: the longest program that fits, loaded up to the last memory cell.
C3_Witness ==
    /\ Len(rom) = 3584
    /\ status = "running"
    /\ RingEmpty(chip8)
    /\ chip8.mem[4095] = rom[3584] /\ rom[3584] # 0
    /\ chip8.mem[335] = 128
    /\ chip8.pc = 512 /\ chip8.sp = 15

\* C4: a reset replaces the whole machine by initialize(rom), whatever the
\* program did to memory and whatever keys are held.
C4_ResetEqualsInitialize ==
    [][RingCleared => (chip8' = newChip8(rom) /\ rom' = rom /\ status' = "running")]_vars

\* C4 witness: a running machine whose program has overwritten its own code
\* and the sprite table, with a key held; a reset is enabled here.
C4_Witness ==
    /\ rom = RomSelfModify
    /\ status = "running"
    /\ chip8.mem[512] = 171 /\ rom[1] # 171
    /\ chip8.mem[256] = 1 /\ chip8.mem[257] = 7
    /\ chip8.keys[1] = 1
    /\ ~RingEmpty(chip8)

\* C5: a completed FX0A step with no key pressed leaves PC at the FX0A
\* address and registers, I, memory, stack, timers and framebuffer unchanged;
\* with a key pressed it leaves PC at the address + 2 and VX = the lowest
\* pressed key index.
C5_KeyWait ==
    [][(CanFetch(chip8) /\ Family(FetchedOp(chip8)) = 15
          /\ LowByte(FetchedOp(chip8)) = 10 /\ StepCompleted)
        => LET x == XOf(FetchedOp(chip8))
           IN  /\ chip8'.i = chip8.i /\ chip8'.mem = chip8.mem
               /\ chip8'.stack = chip8.stack /\ chip8'.sp = chip8.sp
               /\ chip8'.dt = chip8.dt /\ chip8'.st = chip8.st
               /\ chip8'.disp = chip8.disp
               /\ \A r \in (0..15) \ {x} : chip8'.v[r] = chip8.v[r]
               /\ IF PressedKeys(chip8) = {}
                  THEN chip8'.pc = chip8.pc /\ chip8'.v[x] = chip8.v[x]
                  ELSE /\ chip8'.pc = chip8.pc + 2
                       /\ chip8'.v[x] = MinOf(PressedKeys(chip8))]_vars

\* C5 witness: FX0A at 202 ran at least twice (it waited), then completed with
\* keys 0 and 1 both pressed and stored 0 over the 9 in V4.
C5_Witness ==
    /\ rom = RomWait
    /\ PrevRecord(chip8) = "202-F40A LD   V4,K"
    /\ LastRecord(chip8) = "202-F40A LD   V4,K"
    /\ chip8.pc = 516
    /\ chip8.v[4] = 0
    /\ chip8.keys[0] = 1 /\ chip8.keys[1] = 1

\* The return addresses RomChain has pushed when the stack pointer is sp:
\* slot 15 holds 202, slot 15 - k holds the address after the call at 204 + 4(k-1).
ChainLayout(c) ==
    \A s \in 0..15 :
        (c.sp = 255 \/ s > c.sp) =>
            c.stack[s] = IF s = 15 THEN 514 ELSE 516 + 4 * (14 - s) + 2

\* C6: while the depth stays within 0..16, a call stores the address after it
\* at slot SP and decrements SP, a return increments SP and jumps to the
\* address in that slot, and nothing else touches the stack: returns are
\* LIFO, SP = 15 - depth, and the live addresses occupy slots 15 down to 16 - depth.
C6_StackLIFO ==
    /\ [](status = "running" => chip8.sp \in (0..15) \cup {255})
    /\ []((status = "running" /\ rom = RomChain) => ChainLayout(chip8))
    /\ [][(CanFetch(chip8) /\ StepCompleted)
           => LET op == FetchedOp(chip8)
                  sp == chip8.sp
                  up == IF sp = 255 THEN 0 ELSE sp + 1
              IN  /\ IsCall(op) =>
                        /\ chip8'.pc = op % 4096
                        /\ chip8'.sp = (IF sp = 0 THEN 255 ELSE sp - 1)
                        /\ chip8'.stack = [chip8.stack EXCEPT ![sp] = chip8.pc + 2]
                  /\ IsRet(op) =>
                        /\ chip8'.pc = chip8.stack[up]
                        /\ chip8'.sp = up
                        /\ chip8'.stack = chip8.stack
                  /\ (~IsCall(op) /\ ~IsRet(op)) =>
                        chip8'.sp = chip8.sp /\ chip8'.stack = chip8.stack]_vars

\* C6 witness: sixteen calls deep, the return at 240 has popped slot 0 and
\* jumped to the address after the sixteenth call.
C6_Witness ==
    /\ rom = RomChain
    /\ LastRecord(chip8) = "240-00EE RET  "
    /\ chip8.sp = 0
    /\ chip8.pc = 574
    /\ chip8.stack[0] = 574 /\ chip8.stack[15] = 514

\* C7: a call with all 16 slots in use, and a return on an empty stack, each
\* complete as an executed instruction without any error.
C7_StackWrapsSilently ==
    [][(status = "running" /\ CanFetch(chip8)
          /\ \/ IsCall(FetchedOp(chip8)) /\ chip8.sp = 255
             \/ IsRet(FetchedOp(chip8)) /\ chip8.sp = 15)
        => status' = "running"]_vars

\* C8: a tick sets each timer to max(0, old - 1) and changes nothing else; a
\* timer at 0 leaves 0 only by a completed FX15 (delay) or FX18 (sound).
C8_TickDecrements ==
    /\ [][Tick => chip8' = [chip8 EXCEPT !.dt = Max0(chip8.dt - 1),
                                         !.st = Max0(chip8.st - 1)]]_vars
    /\ [][(chip8.dt = 0 /\ chip8'.dt # 0)
            => (StepCompleted /\ Family(FetchedOp(chip8)) = 15
                /\ LowByte(FetchedOp(chip8)) = 21)]_vars
    /\ [][(chip8.st = 0 /\ chip8'.st # 0)
            => (StepCompleted /\ Family(FetchedOp(chip8)) = 15
                /\ LowByte(FetchedOp(chip8)) = 24)]_vars

\* C8 witness: DT was set to 3 and ST to 2; two ticks later DT = 1 while ST
\* has stopped at 0, and the program has read DT = 2 in between.
C8_Witness ==
    /\ rom = RomTimers
    /\ chip8.dt = 1 /\ chip8.st = 0
    /\ chip8.v[1] = 2 /\ chip8.v[2] = 2
    /\ LastRecord(chip8) = "20A-1208 GOTO 208"

\* What DXYN is to leave in the framebuffer: cell (cx, cy) is toggled exactly
\* when it is the target of a set sprite bit, i.e. 0 <= cx - vx < 8,
\* 0 <= cy - vy < n and bit 7 - (cx - vx) of mem[I + cy - vy] is 1.
SpriteHits(mem, i, vx, vy, n, p) ==
    LET col == (p % 64) - vx
        row == (p \div 64) - vy
    IN  /\ col >= 0 /\ col < 8 /\ row >= 0 /\ row < n
        /\ (mem[i + row] \div Pow2(7 - col)) % 2 = 1

Blitted(disp, mem, i, vx, vy, n) ==
    [p \in 0..2047 |->
        IF SpriteHits(mem, i, vx, vy, n, p) THEN 1 - disp[p] ELSE disp[p]]

\* C9: a completed DXYN XORs every sprite bit whose target lies inside the
\* 64x32 grid into its cell, skips every target outside it (no wraparound),
\* changes no other cell, and leaves VF = 1 iff some cell went from 1 to 0.
C9_DrawClipsAndFlags ==
    [][(CanFetch(chip8) /\ Family(FetchedOp(chip8)) = 13 /\ StepCompleted)
        => LET op  == FetchedOp(chip8)
               vx  == chip8.v[XOf(op)]
               vy  == chip8.v[(op \div 16) % 16]
               n   == op % 16
               new == Blitted(chip8.disp, chip8.mem, chip8.i, vx, vy, n)
           IN  /\ chip8'.disp = new
               /\ chip8'.v[15] =
                    IF \E p \in 0..2047 : chip8.disp[p] = 1 /\ new[p] = 0
                    THEN 1 ELSE 0]_vars

\* C9 witness: a sprite drawn at x = 60, then at x = 62 on top of it: the
\* columns past 63 are dropped, (62, 29) went from 1 to 0, (60, 29) stays lit.
C9_Witness ==
    /\ rom = DrawRom(60, 29, 5, 2)
    /\ LastRecord(chip8) = "20A-D015 DRW  V0,V1,5"
    /\ chip8.pc = 524
    /\ chip8.v[0] = 62 /\ chip8.v[15] = 1
    /\ chip8.disp[29 * 64 + 62] = 0
    /\ chip8.disp[29 * 64 + 60] = 1
    /\ \A p \in 0..(29 * 64 - 1) : chip8.disp[p] = 0

\* the sprite of a draw program has a set bit inside the grid at (vx, vy)
VisibleBit(c, vx, vy, n) ==
    \E p \in 0..2047 : SpriteHits(c.mem, c.i, vx, vy, n, p)

\* C10: drawing twice with the same sprite, I and position restores the
\* framebuffer; from a cleared framebuffer the first draw leaves VF = 0 and,
\* when the sprite has a set bit inside the grid, the second leaves VF = 1.
\* The draw programs run DRW at 206 on a cleared framebuffer and, when dx = 0,
\* the same DRW again at 20A; every completed DRW is also undone by a repeat.
C10_DrawTwiceRestores ==
    /\ []((status = "running" /\ chip8.ophistoryIndex = 4 /\ chip8.pc = 520)
            => chip8.v[15] = 0)
    /\ []((status = "running" /\ chip8.ophistoryIndex = 6 /\ chip8.pc = 524
             /\ rom[10] = 0)
            => /\ \A p \in 0..2047 : chip8.disp[p] = 0
               /\ chip8.v[15] =
                    IF VisibleBit(chip8, chip8.v[0], chip8.v[1], rom[8] % 16)
                    THEN 1 ELSE 0)
    /\ [][(CanFetch(chip8) /\ Family(FetchedOp(chip8)) = 13 /\ StepCompleted
             /\ XOf(FetchedOp(chip8)) # 15 /\ (FetchedOp(chip8) \div 16) % 16 # 15)
           => LET op == FetchedOp(chip8)
                  again == draw(chip8', chip8'.v[XOf(op)],
                                chip8'.v[(op \div 16) % 16], op % 16)
              IN  again.out = "ok" /\ again.c.disp = chip8.disp]_vars

\* C10 witness: fifteen rows drawn at (5, 0) and drawn again: the framebuffer
\* is clear again and the second draw reported the collision.
C10_Witness ==
    /\ rom = DrawRom(5, 0, 15, 0)
    /\ LastRecord(chip8) = "20A-D01F DRW  V0,V1,15"
    /\ PrevRecord(chip8) = "208-7000 ADD  V0,#00"
    /\ chip8.pc = 524
    /\ chip8.v[15] = 1
    /\ \A p \in 0..2047 : chip8.disp[p] = 0

\* C11 as stated: after a completed 8XY4, for every X and Y (X = 0xF
\* included), VX = (old VX + old VY) mod 256 and VF = 1 iff old VX + old VY > 255.
C11_AddBothResults ==
    [][Completed8(4)
        => LET x == XOf(FetchedOp(chip8))
               y == YOf(FetchedOp(chip8))
           IN  /\ chip8'.v[x] = (chip8.v[x] + chip8.v[y]) % 256
               /\ chip8'.v[15] = Flag(chip8.v[x] + chip8.v[y] > 255)]_vars

\* C11 amended: after a completed 8XY4, VF = 1 iff old VX + old VY > 255,
\* else 0, for every X and Y (X = Y, X = 0xF and Y = 0xF included); and VX =
\* (old VX + old VY) mod 256 for every X other than 0xF.  When X = 0xF the
\* register holds the flag, which is stored last.
C11_AddCarry ==
    [][Completed8(4)
        => LET x == XOf(FetchedOp(chip8))
               y == YOf(FetchedOp(chip8))
           IN  /\ x # 15 => chip8'.v[x] = (chip8.v[x] + chip8.v[y]) % 256
               /\ chip8'.v[15] = Flag(chip8.v[x] + chip8.v[y] > 255)]_vars

\* C11 witness: X = Y: V1 = 129 added to itself gives 2 with the carry set.
C11_Witness ==
    /\ rom = AluRom(1, 1, 129, 129, 4)
    /\ LastRecord(chip8) = "204-8114 ADD  V1,V1"
    /\ chip8.v[1] = 2
    /\ chip8.v[15] = 1

\* C12 as stated: after a completed 8XY5, for all X and Y, VX = (old VX -
\* old VY) mod 256 and VF = 1 iff old VX >= old VY; after a completed 8XY7,
\* VX = (old VY - old VX) mod 256 and VF = 1 iff old VY >= old VX; else VF = 0.
C12_SubBothResults ==
    /\ [][Completed8(5)
           => LET x == XOf(FetchedOp(chip8))
                  y == YOf(FetchedOp(chip8))
              IN  /\ chip8'.v[x] = (chip8.v[x] - chip8.v[y]) % 256
                  /\ chip8'.v[15] = Flag(chip8.v[x] >= chip8.v[y])]_vars
    /\ [][Completed8(7)
           => LET x == XOf(FetchedOp(chip8))
                  y == YOf(FetchedOp(chip8))
              IN  /\ chip8'.v[x] = (chip8.v[y] - chip8.v[x]) % 256
                  /\ chip8'.v[15] = Flag(chip8.v[y] >= chip8.v[x])]_vars

\* C12 amended: after a completed 8XY5, VF = 1 iff old VX >= old VY, and
\* after a completed 8XY7, VF = 1 iff old VY >= old VX, else VF = 0, for all X
\* and Y, from the operands as they were before the instruction (VF = 1 for
\* equal operands); VX is the difference mod 256 for every X other than 0xF.
\* When X = 0xF the register holds the flag, which is stored last.
C12_SubBorrow ==
    /\ [][Completed8(5)
           => LET x == XOf(FetchedOp(chip8))
                  y == YOf(FetchedOp(chip8))
              IN  /\ x # 15 => chip8'.v[x] = (chip8.v[x] - chip8.v[y]) % 256
                  /\ chip8'.v[15] = Flag(chip8.v[x] >= chip8.v[y])]_vars
    /\ [][Completed8(7)
           => LET x == XOf(FetchedOp(chip8))
                  y == YOf(FetchedOp(chip8))
              IN  /\ x # 15 => chip8'.v[x] = (chip8.v[y] - chip8.v[x]) % 256
                  /\ chip8'.v[15] = Flag(chip8.v[y] >= chip8.v[x])]_vars

\* C12 witness: equal operands: 129 - 129 leaves 0 with VF = 1 (no borrow).
C12_Witness ==
    /\ rom = AluRom(0, 1, 129, 129, 5)
    /\ LastRecord(chip8) = "204-8015 SUB  V0,V1"
    /\ chip8.v[0] = 0 /\ chip8.v[1] = 129
    /\ chip8.v[15] = 1

\* C13: after a completed 8XY6, VF is the least-significant bit of the
\* pre-shift VX; after a completed 8XYE, VF is the most-significant bit of the
\* pre-shift VX; for every X, also when the shifted register is VF itself.
C13_ShiftFlag ==
    /\ [][Completed8(6)
           => chip8'.v[15] = chip8.v[XOf(FetchedOp(chip8))] % 2]_vars
    /\ [][Completed8(14)
           => chip8'.v[15] = chip8.v[XOf(FetchedOp(chip8))] \div 128]_vars

\* C14 as stated: after a completed 7XNN, for every X, VX = (old VX + NN) mod
\* 256 and VF is what it was before.
C14_AddImmKeepsVF ==
    [][(CanFetch(chip8) /\ Family(FetchedOp(chip8)) = 7 /\ StepCompleted)
        => LET x  == XOf(FetchedOp(chip8))
               nn == LowByte(FetchedOp(chip8))
           IN  /\ chip8'.v[x] = (chip8.v[x] + nn) % 256
               /\ chip8'.v[15] = chip8.v[15]]_vars

\* C14 amended: after a completed 7XNN, VX = (old VX + NN) mod 256 for every
\* X, and for every X other than 0xF the flag register VF is what it was
\* before, also when the sum exceeds 255.  With X = 0xF the instruction adds
\* into VF itself; no carry is recorded anywhere.
C14_AddImmNoFlag ==
    [][(CanFetch(chip8) /\ Family(FetchedOp(chip8)) = 7 /\ StepCompleted)
        => LET x  == XOf(FetchedOp(chip8))
               nn == LowByte(FetchedOp(chip8))
           IN  /\ chip8'.v[x] = (chip8.v[x] + nn) % 256
               /\ x # 15 => chip8'.v[15] = chip8.v[15]]_vars

\* C14 witness: V0 = 2 with VF = 0 (left by a borrow); ADD V0,#FF wraps to 1
\* and VF is still 0.
C14_Witness ==
    /\ rom = AluRom(0, 1, 1, 255, 5)
    /\ LastRecord(chip8) = "206-70FF ADD  V0,#FF"
    /\ PrevRecord(chip8) = "204-8015 SUB  V0,V1"
    /\ chip8.v[0] = 1
    /\ chip8.v[15] = 0

\* the operands of a dump program, read back from its bytes
DumpXOf(b) == b[9] % 16

DumpAddrOf(b) == (b[7] % 16) * 256 + b[8]

C17_StoreBCD ==
    [][(CompletedF(51) /\ chip8.i + 2 < MemSize)
        => LET x == XOf(FetchedOp(chip8))
               i == chip8.i
           IN  /\ \A k \in 0..2 : chip8'.mem[i + k] \in 0..9
               /\ 100 * chip8'.mem[i] + 10 * chip8'.mem[i + 1] + chip8'.mem[i + 2]
                    = chip8.v[x]
               /\ \A a \in (0..4095) \ {i, i + 1, i + 2} : chip8'.mem[a] = chip8.mem[a]
               /\ chip8'.v = chip8.v
               /\ chip8'.i = chip8.i]_vars

\* C17 witness: VF = 219 stored at the last three cells of memory as 2, 1, 9.
C17_Witness ==
    /\ rom = BcdRom(15, 219, 4093)
    /\ LastRecord(chip8) = "204-FF33 LD   B,VF"
    /\ chip8.mem[4093] = 2 /\ chip8.mem[4094] = 1 /\ chip8.mem[4095] = 9
    /\ chip8.v[15] = 219
    /\ chip8.i = 4093

\* everything of the machine outside the program region 0x200..0xFFF is as
\* initialize leaves it for a program that fits
OutsideProgramIntact(c) ==
    /\ \A a \in 0..511 :
          c.mem[a] = IF a >= 256 /\ a <= 335 THEN characterSprites[a - 255] ELSE 0
    /\ \A r \in 0..15 : c.v[r] = 0
    /\ c.i = 0 /\ c.dt = 0 /\ c.st = 0
    /\ \A k \in 0..15 : c.keys[k] = 0 /\ c.stack[k] = 0
    /\ \A d \in 0..2047 : c.disp[d] = 0
    /\ c.pc = 512 /\ c.sp = 15

\* C18 as stated: a machine just initialized with a program longer than 3584
\* bytes is running (no error), and the bytes that do not fit between 0x200
\* and 0xFFF were written outside that region: the layout outside it (sprite
\* table, zero page, registers, stack, ...) is not what initialize leaves.
C18_OversizeOverruns ==
    (Len(rom) > 3584 /\ RingEmpty(chip8) /\ PressedKeys(chip8) = {})
        => (status = "running" /\ ~OutsideProgramIntact(chip8))

\* C18 amended: initializing with a program longer than 3584 bytes raises no
\* error; the first 3584 bytes are loaded at 0x200..0xFFF and the bytes that
\* do not fit are dropped: nothing is written outside that region, the sprite
\* table and all other state are as for a program that fits.  At start-up and
\* at every reset.
C18_OversizeTruncates ==
    /\ (Len(rom) > 3584
          => (status = "running" /\ IsInitialized(chip8, SubSeq(rom, 1, 3584))))
    /\ [][(Len(rom) > 3584 /\ RingCleared)
           => (status' = "running" /\ IsInitialized(chip8', SubSeq(rom, 1, 3584)))]_vars

\* C18 witness: a program of 3590 bytes just loaded: memory ends with its
\* byte 3584, and the zero page and the sprite table are intact.
C18_Witness ==
    /\ Len(rom) = 3590
    /\ status = "running"
    /\ RingEmpty(chip8)
    /\ chip8.mem[4095] = rom[3584]
    /\ \A a \in 0..255 : chip8.mem[a] = 0
    /\ chip8.mem[256] = 240 /\ chip8.mem[335] = 128
    /\ rom[3585] # 0 /\ rom[3590] # 0

\* the mnemonic execOpcode formats for opcode op
MnemonicOf(c, op) == dispatch(c, op, 0).mn

\* the skip instructions and the condition each tests
IsSkip(op) ==
    \/ Family(op) \in {3, 4, 5, 9}
    \/ Family(op) = 14 /\ LowByte(op) \in {158, 161}

SkipCondition(c, op) ==
    LET x  == XOf(op)
        y  == YOf(op)
        nn == LowByte(op)
    IN  CASE Family(op) = 3 -> c.v[x] = nn
          [] Family(op) = 4 -> c.v[x] # nn
          [] Family(op) = 5 -> c.v[x] = c.v[y]
          [] Family(op) = 9 -> c.v[x] # c.v[y]
          [] Family(op) = 14 /\ nn = 158 -> c.keys[c.v[x]] = 1
          [] Family(op) = 14 /\ nn = 161 -> c.keys[c.v[x]] # 1

\* instructions that set the program counter themselves
SetsPC(c, op) ==
    \/ Family(op) \in {1, 2, 11}
    \/ IsRet(op)
    \/ Family(op) = 15 /\ LowByte(op) = 10 /\ PressedKeys(c) = {}

\* C19: for every completed step, the opcode executed is memory[old PC] * 256
\* + memory[old PC + 1] (it is the one the trace record names, at old PC); a
\* skip instruction leaves PC = old PC + 4 exactly when its condition holds
\* and old PC + 2 otherwise; a call stores old PC + 2 on the stack and jumps;
\* a jump goes to NNN, a return to the popped address, a key-wait with no key
\* stays; every other instruction leaves PC = old PC + 2.
C19_FetchAdvancesFirst ==
    [][(CanFetch(chip8) /\ StepCompleted)
        => LET op == FetchedOp(chip8)
               pc == chip8.pc
           IN  /\ chip8'.ophistory[chip8.ophistoryIndex]
                    = TraceRecord(pc, op, MnemonicOf(chip8, op))
               /\ IsSkip(op) =>
                    chip8'.pc = (IF SkipCondition(chip8, op) THEN pc + 4 ELSE pc + 2)
               /\ IsCall(op) =>
                    chip8'.pc = op % 4096 /\ chip8'.stack[chip8.sp] = pc + 2
               /\ Family(op) = 1 => chip8'.pc = op % 4096
               /\ (~IsSkip(op) /\ ~SetsPC(chip8, op)) => chip8'.pc = pc + 2]_vars

\* C19 witness: V0 = V1 = 1: SE V0,#01 and SE V0,V1 skipped their next
\* instruction, SNE V0,#01 and SNE V0,V1 did not.
C19_Witness ==
    /\ rom = SkipRom(1, 1, 0)
    /\ LastRecord(chip8) = "214-6601 LD   V6,#01"
    /\ PrevRecord(chip8) = "212-9010 SNE  V0,V1"
    /\ chip8.v[3] = 0 /\ chip8.v[4] = 1 /\ chip8.v[5] = 0 /\ chip8.v[6] = 1
    /\ chip8.pc = 534

\* C20: a completed EX9E with VX in 0..15 leaves PC = old PC + 4 iff key VX
\* is pressed, else old PC + 2; a completed EXA1 leaves PC = old PC + 4 iff key
\* VX is not pressed, else old PC + 2; neither changes the keypad or a
\* register; and in every state where one of them is about to run, exactly one
\* of the two opcodes would skip.
C20_SkipIfKey ==
    /\ [][(CanFetch(chip8) /\ Family(FetchedOp(chip8)) = 14 /\ StepCompleted
             /\ LowByte(FetchedOp(chip8)) \in {158, 161})
           => LET op == FetchedOp(chip8)
                  vx == chip8.v[XOf(op)]
                  pressed == chip8.keys[vx] = 1
              IN  /\ vx \in 0..15
                  /\ LowByte(op) = 158 =>
                        chip8'.pc = (IF pressed THEN chip8.pc + 4 ELSE chip8.pc + 2)
                  /\ LowByte(op) = 161 =>
                        chip8'.pc = (IF pressed THEN chip8.pc + 2 ELSE chip8.pc + 4)
                  /\ chip8'.keys = chip8.keys
                  /\ chip8'.v = chip8.v]_vars
    /\ []((status = "running" /\ CanFetch(chip8) /\ Family(FetchedOp(chip8)) = 14
             /\ LowByte(FetchedOp(chip8)) \in {158, 161}
             /\ chip8.v[XOf(FetchedOp(chip8))] \in 0..15)
            => LET x  == XOf(FetchedOp(chip8))
                   c2 == [chip8 EXCEPT !.pc = chip8.pc + 2]
               IN  {opE(c2, x, 158).c.pc, opE(c2, x, 161).c.pc}
                     = {chip8.pc + 2, chip8.pc + 4})

\* C20 witness: with key 1 held, SKP V2 (V2 = 1) skipped the load of V7 and
\* SKNP V2 did not skip the load of V8.
C20_Witness ==
    /\ rom = SkipRom(0, 0, 1)
    /\ LastRecord(chip8) = "21C-6801 LD   V8,#01"
    /\ PrevRecord(chip8) = "21A-E2A1 SKNP V2"
    /\ chip8.v[7] = 0 /\ chip8.v[8] = 1
    /\ chip8.keys[1] = 1

\* C21: every one of the 2048 framebuffer cells holds 0 or 1 in every
\* reachable state; a completed 00E0 leaves all of them 0 whatever they held;
\* and a step, tick or key input changes a framebuffer cell only if it is a
\* completed 00E0 or DXYN (a reset replaces the whole machine by initialize).
C21_FramebufferCells ==
    /\ [](DOMAIN chip8.disp = 0..2047
            /\ \A p \in 0..2047 : chip8.disp[p] \in {0, 1})
    /\ [][(CanFetch(chip8) /\ FetchedOp(chip8) = 224 /\ StepCompleted)
           => \A p \in 0..2047 : chip8'.disp[p] = 0]_vars
    /\ [][(chip8'.disp # chip8.disp /\ ~RingCleared)
           => /\ CanFetch(chip8) /\ StepCompleted
              /\ FetchedOp(chip8) = 224 \/ Family(FetchedOp(chip8)) = 13]_vars

\* C21 witness: three draws of fifteen rows at (5, 0) left the sprite lit (the
\* third draw met no lit cell), and CLS then cleared every cell.
C21_Witness ==
    /\ rom = DrawRom(5, 0, 15, 0)
    /\ LastRecord(chip8) = "20E-00E0 CLS  "
    /\ PrevRecord(chip8) = "20C-D01F DRW  V0,V1,15"
    /\ chip8.v[15] = 0
    /\ \A p \in 0..2047 : chip8.disp[p] = 0

\* C22: every step that runs a handler to its end (a waiting FX0A included)
\* stores one record, made of the address the opcode was fetched from, the raw
\* opcode and the mnemonic, at the write position, leaves the other fifteen
\* records alone and advances the write position by 1 modulo 16; the write
\* position is in 0..15 in every reachable state; and apart from the ring the
\* machine is exactly what the handler left: recording changes no register,
\* memory cell, PC, I, stack, timer or framebuffer cell.
C22_TraceRing ==
    /\ [](chip8.ophistoryIndex \in 0..15 /\ DOMAIN chip8.ophistory = 0..15)
    /\ [][(Step /\ status' = "running")
           => \E rnd \in RandValues :
                LET f == fetchOpcode(chip8)
                    r == dispatch(f.c, f.op, rnd)
                    w == chip8.ophistoryIndex
                IN  /\ f.op = FetchedOp(chip8)
                    /\ chip8'.ophistory =
                         [chip8.ophistory EXCEPT
                            ![w] = TraceRecord(chip8.pc, FetchedOp(chip8), r.mn)]
                    /\ chip8'.ophistoryIndex = (w + 1) % 16
                    /\ [chip8' EXCEPT !.ophistory = chip8.ophistory,
                                      !.ophistoryIndex = w] = r.c]_vars

\* C22 witness: the call chain has run 32 instructions: the ring has wrapped
\* and holds the last sixteen, the returns at 240, 23E, ..., 206, in order
\* from slot 0, with the write position back at 0.
C22_Witness ==
    /\ rom = RomChain
    /\ status = "running"
    /\ chip8.ophistoryIndex = 0
    /\ chip8.ophistory[0] = "240-00EE RET  "
    /\ chip8.ophistory[1] = "23E-00EE RET  "
    /\ chip8.ophistory[2] = "23A-00EE RET  "
    /\ chip8.ophistory[15] = "206-00EE RET  "
    /\ chip8.pc = 514

\* this transition is one pass through the loop body of Run
BodyRan == host.at = "loop" /\ host'.at = "poll"

\* the machine c2 is c after exactly one call of step
OneStep(c, c2) == \E rnd \in RandValues : step(c, rnd).c = c2

\* c2 is c apart from the timers
SameButTimers(c, c2) == [c2 EXCEPT !.dt = c.dt, !.st = c.st] = c

\* C23: while running, a SPACE press only enters step mode and executes no
\* instruction; while in step mode a pass through the loop body executes no
\* instruction, and a SPACE press executes exactly one step and stays in step
\* mode; a RETURN press leaves step mode and changes nothing else (nothing at
\* all while running); with step mode off and the window focused, each pass
\* through the loop body executes exactly one step.
C23_PauseAndStep ==
    /\ [][(EvSpace /\ ~host.stepMode)
           => /\ host' = [host EXCEPT !.stepMode = TRUE]
              /\ chip8' = chip8 /\ status' = status]_vars
    /\ [][(BodyRan /\ host.stepMode) => SameButTimers(chip8, chip8')]_vars
    /\ [][(EvSpace /\ host.stepMode)
           => /\ OneStep(chip8, chip8')
              /\ host' = host]_vars
    /\ [][EvReturn
           => /\ host' = [host EXCEPT !.stepMode = FALSE]
              /\ chip8' = chip8 /\ status' = status]_vars
    /\ [][(BodyRan /\ ~host.stepMode /\ host.focus)
           => \E c \in {step(chip8, rnd).c : rnd \in RandValues} :
                 SameButTimers(c, chip8')]_vars

\* C23 witness: in step mode, after a single pass through the loop body,
\* three instructions have been executed: at least two of them one by one by
\* SPACE presses.
C23_Witness ==
    /\ rom = RomIdle
    /\ host.stepMode /\ host.focus
    /\ host.at = "poll"
    /\ host.cycle = 1
    /\ chip8.dt = 1
    /\ chip8.ophistoryIndex = 3
    /\ LastRecord(chip8) = "204-1204 GOTO 204"
    /\ chip8.pc = 516

\* C24: while the window stays focused and step mode is off, exactly
\* Chip8Frequency / VBlankFrequency = 8 calls of step are made between two
\* consecutive calls of decrementTimer.
C24_EightStepsPerTick ==
    [][(BodyRan /\ host.focus /\ host'.cycle = 0 /\ stepCalls >= 0)
        => stepCalls + 1 = Chip8Frequency \div VBlankFrequency]_vars

====
